---- MODULE Spec2Model ----
(***************************************************************************)
(* The benchmark-baseline pipeline of NexusCore:                           *)
(*   benchmarks/py/extract_performance_metrics.py  (extraction and the     *)
(*       append-only ledger large_file_baselines.csv)                      *)
(*   benchmarks/py/compare_baselines.py            (load, compare, report) *)
(*                                                                         *)
(* Text is modelled as a sequence of tokens.  A token is one character     *)
(* wherever the code looks at characters (digits, the sign, the date), and *)
(* one multi-character literal where the code treats the literal as a unit *)
(* (the label and the unit of a regular expression, a host string).        *)
(* A ledger file is a sequence of lines and a line a sequence of fields:   *)
(* the csv module's quoting is not modelled, fields are atomic.            *)
(* Python floats are modelled by exact rationals num/den.                  *)
(***************************************************************************)
EXTENDS Integers, Sequences, FiniteSets, TLC

VARIABLES
    today,       \* the wall clock's day, read by datetime.now()
    store,       \* the ledger file: [exists, lines]
    appended,    \* history: the data rows written by the appends that completed
    last,        \* the last extract_metrics call: its inputs and how it ended
    content,     \* the raw test output handed to the extractor
    metrics,     \* the extractor's result for content, <<>> before it ran
    pc,          \* compare_baselines.py main(): "start", "done" or "crashed"
    loaded,      \* main(): the list load_baselines returned, as returned
    baselines,   \* main(): the same list object after compare_baselines(baselines)
    comparison,  \* main(): what compare_baselines returned, <<>> for None
    reportFile,  \* docs/performance_comparisons.md, <<>> while not written
    stdout       \* the lines printed by main()

vars == <<today, store, appended, last, content, metrics, pc, loaded, baselines,
          comparison, reportFile, stdout>>

(***************************************************************************)
(* Bounds of the model.                                                    *)
(***************************************************************************)
MaxDay == 3
MaxAppends == 3
MaxTextLen == 6
MaxRecords == 3
MaxBadRows == 2
MaxColDelta == 1
MaxFieldLen == 3

(***************************************************************************)
(* Strings.                                                                *)
(***************************************************************************)
NA == <<"N", "/", "A">>
TBD == <<"T", "B", "D">>
\* Python's None, where a field value is expected: no string equals it.
None == <<"None">>

DigitChars == <<"0", "1", "2", "3", "4", "5", "6", "7", "8", "9">>

IsDigit(c) == \E i \in 1..Len(DigitChars) : DigitChars[i] = c

DigitValue(c) == (CHOOSE i \in 1..Len(DigitChars) : DigitChars[i] = c) - 1

\* The characters of a Date field in ascending code point order.
CodePoints == <<"-", "0", "1", "2", "3", "4", "5", "6", "7", "8", "9">>

Ord(c) == CHOOSE i \in 1..Len(CodePoints) : CodePoints[i] = c

\* Python's str < str: lexicographic by code point, a proper prefix is smaller.
RECURSIVE StrLess(_, _)
StrLess(a, b) ==
    IF b = <<>> THEN FALSE
    ELSE IF a = <<>> THEN TRUE
    ELSE IF Head(a) = Head(b) THEN StrLess(Tail(a), Tail(b))
    ELSE Ord(Head(a)) < Ord(Head(b))

\* datetime.now().strftime('%Y-%m-%d') on day d of January 2024.
strftime(d) ==
    <<"2", "0", "2", "4", "-", "0", "1", "-",
      DigitChars[(d \div 10) + 1], DigitChars[(d % 10) + 1]>>

(***************************************************************************)
(* The ledger's columns.                                                   *)
(***************************************************************************)
MetricNames ==
    <<"FileOpenTime", "FileSaveTime", "MemoryUsage", "TextInsertionTime",
      "NavigationTime", "ScrollingTime", "SearchReplaceTime">>

MetricSet == {MetricNames[i] : i \in 1..Len(MetricNames)}

fieldnames ==
    <<"Date", "CommitHash", "CPUModel", "RAM", "OS", "BuildConfig">> \o MetricNames

\* The header line csv.DictWriter.writeheader() writes: one field per column name.
HeaderLine == [i \in 1..Len(fieldnames) |-> <<fieldnames[i]>>]

(***************************************************************************)
(* MetricExtractor: extract_metrics, the regular expressions.              *)
(***************************************************************************)
\* r'<label>(\d+)<unit>': the label and the unit are one token each.
\* \d is taken over the ASCII digits.
patterns ==
    [FileOpenTime      |-> [label |-> "File open time: ",      unit |-> "ms"],
     FileSaveTime      |-> [label |-> "File save time: ",      unit |-> "ms"],
     MemoryUsage       |-> [label |-> "Memory usage: ",        unit |-> "MB"],
     TextInsertionTime |-> [label |-> "Text insertion time: ", unit |-> "ms"],
     NavigationTime    |-> [label |-> "Navigation time: ",     unit |-> "ms"],
     ScrollingTime     |-> [label |-> "Scrolling time: ",      unit |-> "ms"],
     SearchReplaceTime |-> [label |-> "Search/Replace time: ", unit |-> "ms"]]

\* The longest run of digits of text that starts at position i (\d+ is greedy).
RECURSIVE DigitRun(_, _)
DigitRun(text, i) ==
    IF i <= Len(text) /\ IsDigit(text[i])
    THEN <<text[i]>> \o DigitRun(text, i + 1)
    ELSE <<>>

\* The pattern matched with its first token at position i: the group, or None.
\* Giving back digits of the greedy run cannot help, since the token after a
\* shorter run is a digit and not the unit.
MatchAt(text, pat, i) ==
    LET run == DigitRun(text, i + 1)
        after == i + Len(run) + 1
    IN IF /\ i <= Len(text) /\ text[i] = pat.label
          /\ run # <<>>
          /\ after <= Len(text) /\ text[after] = pat.unit
       THEN run
       ELSE None

\* re.search(pattern, content): the leftmost match; its group(1), or None.
RECURSIVE SearchFrom(_, _, _)
SearchFrom(text, pat, i) ==
    IF i > Len(text) THEN None
    ELSE IF MatchAt(text, pat, i) # None THEN MatchAt(text, pat, i)
    ELSE SearchFrom(text, pat, i + 1)

re_search(pat, text) == SearchFrom(text, pat, 1)

\* A loop that reports the last match of the text instead of the first.
RECURSIVE SearchBack(_, _, _)
SearchBack(text, pat, i) ==
    IF i < 1 THEN None
    ELSE IF MatchAt(text, pat, i) # None THEN MatchAt(text, pat, i)
    ELSE SearchBack(text, pat, i - 1)

ExtractLastMatch(text) ==
    [m \in MetricSet |->
        IF SearchBack(text, patterns[m], Len(text)) # None
        THEN SearchBack(text, patterns[m], Len(text)) ELSE NA]

\* for metric, pattern in patterns.items(): metrics[metric] = group(1) or 'N/A'
ExtractMetrics(text) ==
    [m \in MetricSet |->
        IF re_search(patterns[m], text) # None
        THEN re_search(patterns[m], text) ELSE NA]

(***************************************************************************)
(* SystemInfoProvider, CommitResolver.                                     *)
(***************************************************************************)
\* subprocess.check_output("git rev-parse HEAD"), with the bare except around it.
get_git_commit_hash(git) == IF git.ok THEN git.hash ELSE TBD

GitOutcomes == {[ok |-> TRUE, hash |-> <<"9f3c2e1">>], [ok |-> FALSE, hash |-> <<>>]}

\* get_system_info() is called twice, for [0] and for [1]; a failing query raises.
HostOutcomes == {"ok", "failsFirstCall", "failsSecondCall"}

CPUModel == <<"Intel(R) Core(TM) i7">>
RAM == <<"32GB">>
OS == <<"Linux 6.1">>

(***************************************************************************)
(* BaselineLedger.append: extract_metrics, the csv writes.                 *)
(***************************************************************************)
AbsentStore == [exists |-> FALSE, lines |-> <<>>]

\* csv.DictWriter.writerow(metrics): the values in fieldnames order.
RowOf(day, git, cfg, text) ==
    <<strftime(day), get_git_commit_hash(git), CPUModel, RAM, OS, cfg>>
    \o [i \in 1..Len(MetricNames) |-> ExtractMetrics(text)[MetricNames[i]]]

\* A writer that emits the header on every call.
WriteRowsAlwaysHeader(st, row) ==
    [exists |-> TRUE, lines |-> st.lines \o <<HeaderLine, row>>]

\* file_exists = os.path.isfile(output_file); open(output_file, 'a');
\* writeheader() if not file_exists; writerow(metrics).
WriteRows(st, row) ==
    LET file_exists == st.exists
    IN [exists |-> TRUE,
        lines |-> st.lines \o (IF ~file_exists THEN <<HeaderLine>> ELSE <<>>)
                           \o <<row>>]

\* extract_metrics with the output file opened (and so created) before the
\* host is queried and the input is read.
extract_metrics_OpenFirst(st, day, env) ==
    IF env.host # "ok" \/ ~env.readable
    THEN [outcome |-> "fatal",
          store |-> [exists |-> TRUE,
                     lines |-> st.lines \o (IF ~st.exists THEN <<HeaderLine>> ELSE <<>>)]]
    ELSE [outcome |-> "ok",
          store |-> WriteRows(st, RowOf(day, env.git, env.cfg, env.text))]

\* extract_metrics(input_file, output_file, build_config): the metadata dict is
\* built first (a host query that fails raises out of the call), then the input
\* is read (an unreadable input raises), and only then is the ledger opened.
extract_metrics(st, day, env) ==
    IF env.host # "ok" THEN [outcome |-> "fatal", store |-> st]
    ELSE IF ~env.readable THEN [outcome |-> "fatal", store |-> st]
    ELSE [outcome |-> "ok",
          store |-> WriteRows(st, RowOf(day, env.git, env.cfg, env.text))]

(***************************************************************************)
(* BaselineLedger.load_all: load_baselines, csv.DictReader.                *)
(***************************************************************************)
\* DictReader's restkey: the key None, under which the fields beyond the
\* header's are collected.  No column has this name.
RestKey == "<restkey None>"

\* The column names of a header line, in order.
ColumnNames(header) == [i \in 1..Len(header) |-> header[i][1]]

\* One DictReader row: dict(zip(fieldnames, row)); the fields beyond the header go
\* as a list under restkey; the columns beyond the row get restval, None.
DictRow(names, row) ==
    LET lf == Len(names)
        lr == Len(row)
        keys == {names[i] : i \in 1..lf} \cup (IF lf < lr THEN {RestKey} ELSE {})
    IN [k \in keys |->
           IF k = RestKey THEN SubSeq(row, lf + 1, lr)
           ELSE LET i == CHOOSE j \in 1..lf : names[j] = k
                IN IF i <= lr THEN row[i] ELSE None]

\* DictReader skips the rows that are empty.
RECURSIVE NonEmptyRows(_)
NonEmptyRows(rows) ==
    IF rows = <<>> THEN <<>>
    ELSE IF Head(rows) = <<>> THEN NonEmptyRows(Tail(rows))
    ELSE <<Head(rows)>> \o NonEmptyRows(Tail(rows))

\* A loader that rejects a row whose field count is not the header's.
load_baselines_Strict(st) ==
    IF ~st.exists THEN [ok |-> FALSE, rows |-> <<>>]
    ELSE IF st.lines = <<>> THEN [ok |-> TRUE, rows |-> <<>>]
    ELSE LET names == ColumnNames(Head(st.lines))
             data == NonEmptyRows(Tail(st.lines))
         IN IF \E i \in 1..Len(data) : Len(data[i]) # Len(names)
            THEN [ok |-> FALSE, rows |-> <<>>]
            ELSE [ok |-> TRUE,
                  rows |-> [i \in 1..Len(data) |-> DictRow(names, data[i])]]

\* load_baselines(csv_file): open() raises when the file is absent; the first
\* line gives the field names; every later row becomes a dict.
load_baselines(st) ==
    IF ~st.exists THEN [ok |-> FALSE, rows |-> <<>>]
    ELSE IF st.lines = <<>> THEN [ok |-> TRUE, rows |-> <<>>]
    ELSE LET names == ColumnNames(Head(st.lines))
             data == NonEmptyRows(Tail(st.lines))
         IN [ok |-> TRUE,
             rows |-> [i \in 1..Len(data) |-> DictRow(names, data[i])]]

(***************************************************************************)
(* BaselineComparator: calculate_percentage_change.                        *)
(***************************************************************************)
RECURSIVE DigitsValue(_)
DigitsValue(ds) ==
    IF ds = <<>> THEN 0
    ELSE DigitsValue(SubSeq(ds, 1, Len(ds) - 1)) * 10 + DigitValue(ds[Len(ds)])

AllDigits(ds) == ds # <<>> /\ \A i \in 1..Len(ds) : IsDigit(ds[i])

\* float(x) on a field: TypeError for None, ValueError for text that is no
\* number, else the value.  The texts of the model are made of digits and the
\* sign; a fraction, an exponent, inf and nan are not in its alphabet.
float(x) ==
    IF x = None THEN [error |-> "TypeError", val |-> 0]
    ELSE IF AllDigits(x) THEN [error |-> "", val |-> DigitsValue(x)]
    ELSE IF x # <<>> /\ Head(x) = "-" /\ AllDigits(Tail(x))
         THEN [error |-> "", val |-> 0 - DigitsValue(Tail(x))]
    ELSE [error |-> "ValueError", val |-> 0]

Abs(n) == IF n < 0 THEN 0 - n ELSE n

RECURSIVE Gcd(_, _)
Gcd(a, b) == IF b = 0 THEN a ELSE Gcd(b, a % b)

\* The rational n/d, d # 0, in lowest terms with a positive denominator.
Rational(n, d) ==
    LET g == Gcd(Abs(n), Abs(d))
        s == IF d < 0 THEN 0 - 1 ELSE 1
    IN [isNA |-> FALSE, num |-> (s * n) \div g, den |-> (s * d) \div g]

\* The str "N/A" that calculate_percentage_change returns.
NotApplicable == [isNA |-> TRUE, num |-> 0, den |-> 1]

\* The percentage taken against the new value.
calculate_percentage_change_OverNew(old, new) ==
    IF float(old).error # "" \/ float(new).error # "" THEN NotApplicable
    ELSE IF float(new).val = 0 THEN NotApplicable
    ELSE Rational((float(new).val - float(old).val) * 100, float(new).val)

\* The difference taken the wrong way round.
calculate_percentage_change_Swapped(old, new) ==
    IF float(old).error # "" \/ float(new).error # "" THEN NotApplicable
    ELSE IF float(old).val = 0 THEN NotApplicable
    ELSE Rational((float(old).val - float(new).val) * 100, float(old).val)

\* calculate_percentage_change(old, new): ValueError and TypeError are caught.
calculate_percentage_change(old, new) ==
    IF float(old).error # "" \/ float(new).error # "" THEN NotApplicable
    ELSE LET old_val == float(old).val
             new_val == float(new).val
         IN IF old_val = 0 THEN NotApplicable
            ELSE Rational((new_val - old_val) * 100, old_val)

(***************************************************************************)
(* BaselineComparator: compare_baselines.                                  *)
(***************************************************************************)
Front(s) == SubSeq(s, 1, Len(s) - 1)

Last(s) == s[Len(s)]

\* An insertion that puts x before the elements whose key equals its own.
RECURSIVE InsertBeforeEqual(_, _)
InsertBeforeEqual(s, x) ==
    IF s = <<>> THEN <<x>>
    ELSE IF ~StrLess(Last(s)["Date"], x["Date"])
         THEN Append(InsertBeforeEqual(Front(s), x), Last(s))
         ELSE Append(s, x)

\* x goes after every element whose key is less than or equal to its own.
RECURSIVE InsertStable(_, _)
InsertStable(s, x) ==
    IF s = <<>> THEN <<x>>
    ELSE IF StrLess(x["Date"], Last(s)["Date"])
         THEN Append(InsertStable(Front(s), x), Last(s))
         ELSE Append(s, x)

RECURSIVE SortUnstable(_)
SortUnstable(list) ==
    IF list = <<>> THEN <<>>
    ELSE InsertBeforeEqual(SortUnstable(Front(list)), Last(list))

\* A comparator that trusts the file order.
SortNot(list) == list

\* baselines.sort(key=lambda x: x['Date']): list.sort is stable and in place.
RECURSIVE SortByDate(_)
SortByDate(list) ==
    IF list = <<>> THEN <<>>
    ELSE InsertStable(SortByDate(Front(list)), Last(list))

ChangeKey(metric) == metric \o "_Change"

InsufficientMessage == "Need at least 2 baselines for comparison"

\* The dict compare_baselines builds from latest and previous.
ComparisonOf(previous, latest) ==
    [k \in {"Date", "PreviousDate", "CommitHash", "PreviousCommitHash",
            "BuildConfig", "PreviousBuildConfig"}
           \cup {ChangeKey(m) : m \in MetricSet} |->
        CASE k = "Date" -> latest["Date"]
          [] k = "PreviousDate" -> previous["Date"]
          [] k = "CommitHash" -> latest["CommitHash"]
          [] k = "PreviousCommitHash" -> previous["CommitHash"]
          [] k = "BuildConfig" -> latest["BuildConfig"]
          [] k = "PreviousBuildConfig" -> previous["BuildConfig"]
          [] OTHER ->
               LET m == CHOOSE n \in MetricSet : ChangeKey(n) = k
               IN calculate_percentage_change(previous[m], latest[m])]

\* compare_baselines with the guard off by one.
compare_baselines_AtLeastOne(list) ==
    IF Len(list) < 1
    THEN [list |-> list, ret |-> <<>>, out |-> <<InsufficientMessage>>]
    ELSE LET sorted == SortByDate(list)
         IN [list |-> sorted,
             ret |-> <<ComparisonOf(sorted[IF Len(sorted) > 1 THEN Len(sorted) - 1 ELSE 1],
                                    sorted[Len(sorted)])>>,
             out |-> <<>>]

\* compare_baselines(baselines): list is the caller's list object after the
\* call, ret the returned value (<<>> for None), out what was printed.
compare_baselines(list) ==
    IF Len(list) < 2
    THEN [list |-> list, ret |-> <<>>, out |-> <<InsufficientMessage>>]
    ELSE LET sorted == SortByDate(list)
             latest == sorted[Len(sorted)]
             previous == sorted[Len(sorted) - 1]
         IN [list |-> sorted, ret |-> <<ComparisonOf(previous, latest)>>, out |-> <<>>]

(***************************************************************************)
(* ReportRenderer: generate_markdown_report.                               *)
(***************************************************************************)
RECURSIVE Decimal(_)
Decimal(n) ==
    IF n < 10 THEN <<DigitChars[n + 1]>>
    ELSE Decimal(n \div 10) \o <<DigitChars[(n % 10) + 1]>>

\* f"{change:+.2f}%": the sign always, two decimals, ties to even (on the exact
\* value; the float nearest a tie may fall on either side of it).
FormatChange(change) ==
    LET scaled == Abs(change.num) * 100
        q == scaled \div change.den
        r == scaled % change.den
        h == IF 2 * r > change.den \/ (2 * r = change.den /\ q % 2 = 1)
             THEN q + 1 ELSE q
    IN <<IF change.num < 0 THEN "-" ELSE "+">>
       \o Decimal(h \div 100)
       \o <<".", DigitChars[((h \div 10) % 10) + 1], DigitChars[(h % 10) + 1], "%">>

\* generate_markdown_report(comparison): the overview's six fields and the
\* table's rows, one per metric in the order of the metrics list.
generate_markdown_report(c) ==
    [overview |-> <<c["Date"], c["PreviousDate"], c["CommitHash"],
                    c["PreviousCommitHash"], c["BuildConfig"],
                    c["PreviousBuildConfig"]>>,
     table |-> [i \in 1..Len(MetricNames) |->
                  LET change == c[ChangeKey(MetricNames[i])]
                  IN <<MetricNames[i],
                       IF change # NotApplicable THEN FormatChange(change) ELSE NA>>]]

ReportWritten == "Comparison report written to docs/performance_comparisons.md"

(***************************************************************************)
(* compare_baselines.py main().                                            *)
(***************************************************************************)
\* main(): baselines = load_baselines(baseline_file);
\* comparison = compare_baselines(baselines); if comparison: write the report.
Main ==
    /\ pc = "start"
    /\ LET ld == load_baselines(store)
           cmp == compare_baselines(ld.rows)
       IN IF ~ld.ok
          THEN /\ pc' = "crashed"
               /\ UNCHANGED <<loaded, baselines, comparison, reportFile, stdout>>
          ELSE /\ pc' = "done"
               /\ loaded' = ld.rows
               /\ baselines' = cmp.list
               /\ comparison' = cmp.ret
               /\ IF cmp.ret # <<>>
                  THEN /\ reportFile' = <<generate_markdown_report(cmp.ret[1])>>
                       /\ stdout' = stdout \o cmp.out \o <<ReportWritten>>
                  ELSE /\ reportFile' = reportFile
                       /\ stdout' = stdout \o cmp.out
    /\ UNCHANGED <<today, store, appended, last, content, metrics>>

(***************************************************************************)
(* extract_performance_metrics.py main(), and the clock.                   *)
(***************************************************************************)
\* Two raw test outputs.
TextA ==
    <<"File open time: ", "1", "0", "0", "ms", "File save time: ", "2", "0", "ms",
      "Memory usage: ", "0", "MB", "Text insertion time: ", "7", "ms",
      "Navigation time: ", "3", "ms", "Scrolling time: ", "9", "ms",
      "Search/Replace time: ", "4", "0", "ms">>

TextB ==
    <<"File open time: ", "1", "5", "0", "ms", "Memory usage: ", "5", "0", "MB",
      "Navigation time: ", "3", "ms", "Scrolling time: ", "1", "2", "ms",
      "Search/Replace time: ", "5", "0", "ms">>

\* The command lines of two runs: <input_file> <build_config>.
SampleInputs ==
    {[text |-> TextA, cfg |-> <<"Release">>], [text |-> TextB, cfg |-> <<"Debug">>]}

NoCall == [n |-> 0, outcome |-> "none", gitOk |-> TRUE, hostOk |-> TRUE, readable |-> TRUE]

\* One run of extract_performance_metrics.py <input_file> <build_config>.
ExtractMetricsCall ==
    /\ last.n < MaxAppends
    /\ \E git \in GitOutcomes, host \in HostOutcomes, readable \in BOOLEAN,
          argv \in SampleInputs :
          LET env == [git |-> git, host |-> host, readable |-> readable,
                      cfg |-> argv.cfg, text |-> argv.text]
              res == extract_metrics(store, today, env)
          IN /\ store' = res.store
             /\ last' = [n |-> last.n + 1, outcome |-> res.outcome, gitOk |-> git.ok,
                         hostOk |-> host = "ok", readable |-> readable]
             /\ appended' = IF res.outcome = "ok"
                            THEN Append(appended, RowOf(today, git, argv.cfg, argv.text))
                            ELSE appended
    /\ UNCHANGED <<today, content, metrics, pc, loaded, baselines, comparison,
                   reportFile, stdout>>

\* Midnight passes.
Tick ==
    /\ today < MaxDay
    /\ today' = today + 1
    /\ UNCHANGED <<store, appended, last, content, metrics, pc, loaded, baselines,
                   comparison, reportFile, stdout>>

\* The extractor applied to the raw text.
Extract ==
    /\ metrics = <<>>
    /\ metrics' = <<ExtractMetrics(content)>>
    /\ UNCHANGED <<today, store, appended, last, content, pc, loaded, baselines,
                   comparison, reportFile, stdout>>

(***************************************************************************)
(* Initial states.                                                         *)
(***************************************************************************)
SeqsUpTo(S, n) == UNION {[1..k -> S] : k \in 0..n}

IdleCompare ==
    /\ pc = "start" /\ loaded = <<>> /\ baselines = <<>> /\ comparison = <<>>
    /\ reportFile = <<>> /\ stdout = <<>>

IdleLedger == today = 1 /\ appended = <<>> /\ last = NoCall

IdleExtract == metrics = <<>>

\* The ledger does not exist; the clock shows day 1.
InitLedger ==
    /\ IdleLedger /\ IdleExtract /\ IdleCompare
    /\ store = AbsentStore
    /\ content = <<>>

\* The tokens of a raw text.
TextTokens == {"File open time: ", "File save time: ", "4", "2", "ms", "MB"}

InitExtract ==
    /\ IdleLedger /\ IdleCompare /\ IdleExtract
    /\ store = AbsentStore
    /\ content \in SeqsUpTo(TextTokens, MaxTextLen)

\* Two runs, as extract_metrics records them.
SampleRuns ==
    {[git |-> [ok |-> TRUE, hash |-> <<"9f3c2e1">>], cfg |-> <<"Release">>, text |-> TextA],
     [git |-> [ok |-> FALSE, hash |-> <<>>], cfg |-> <<"Debug">>, text |-> TextB]}

GoodRows == {RowOf(d, r.git, r.cfg, r.text) : d \in 1..MaxDay, r \in SampleRuns}

FileOf(rows) == [exists |-> TRUE, lines |-> <<HeaderLine>> \o rows]

\* A ledger of well-formed rows in any date order; or no file, or an empty one.
InitCompare ==
    /\ IdleLedger /\ IdleExtract /\ IdleCompare
    /\ content = <<>>
    /\ store \in {FileOf(rows) : rows \in SeqsUpTo(GoodRows, MaxRecords)}
                 \cup {AbsentStore, [exists |-> TRUE, lines |-> <<>>]}

\* row with n fields: cut, or filled up with extra fields.
Resize(row, n) ==
    IF n <= Len(row) THEN SubSeq(row, 1, n)
    ELSE row \o [i \in 1..(n - Len(row)) |-> <<"extra">>]

RowWidths == (Len(fieldnames) - MaxColDelta)..(Len(fieldnames) + MaxColDelta)

AnyRows == {Resize(row, n) : row \in GoodRows, n \in RowWidths}

\* A ledger whose rows may have too few or too many fields.
InitLoad ==
    /\ IdleLedger /\ IdleExtract /\ IdleCompare
    /\ content = <<>>
    /\ store \in {FileOf(rows) : rows \in SeqsUpTo(AnyRows, MaxBadRows)}

ColumnIndex(name) == CHOOSE i \in 1..Len(fieldnames) : fieldnames[i] = name

FieldAlphabet == {"0", "5", "-"}

\* The values a metric field is given: short texts, and the N/A marker.
FieldValues == SeqsUpTo(FieldAlphabet, MaxFieldLen) \cup {NA}

MemoryValues == {<<"0">>, <<"5", "0">>}

\* Two rows as extract_metrics writes them, on the first and on the last day.
EarlierRow == RowOf(1, [ok |-> FALSE, hash |-> <<>>], <<"Debug">>, TextA)

LaterRow == RowOf(MaxDay, [ok |-> FALSE, hash |-> <<>>], <<"Debug">>, TextB)

\* full with MemoryUsage m and the last column v, or without its last field.
RowWith(full, m, v) ==
    LET set == [full EXCEPT ![ColumnIndex("MemoryUsage")] = m,
                            ![ColumnIndex("SearchReplaceTime")] = v]
    IN IF v = None THEN Front(set) ELSE set

\* A two-row ledger, the earlier row first.  The last column varies over the
\* field values, or is missing from the row; MemoryUsage varies on its own.
InitChange ==
    /\ IdleLedger /\ IdleExtract /\ IdleCompare
    /\ content = <<>>
    /\ \E v1 \in FieldValues \cup {None}, v2 \in FieldValues \cup {None},
          m1 \in MemoryValues, m2 \in MemoryValues :
          store = FileOf(<<RowWith(EarlierRow, m1, v1), RowWith(LaterRow, m2, v2)>>)

(***************************************************************************)
(* Specifications.                                                         *)
(***************************************************************************)
NextLedger == ExtractMetricsCall \/ Tick

SpecLedger == InitLedger /\ [][NextLedger]_vars

SpecExtract == InitExtract /\ [][Extract]_vars

SpecCompare == InitCompare /\ [][Main]_vars

SpecLoad == InitLoad /\ [][Main]_vars

SpecChange == InitChange /\ [][Main]_vars

Init == InitLedger

Next == NextLedger

Spec == SpecLedger

(***************************************************************************)
(* The ledger.                                                             *)
(***************************************************************************)
\* C1: from an absent store, once N >= 1 appends have completed the file is one
\* header line followed by exactly the N data rows, in the order they were
\* appended: one header, written before the first row, and never a second one;
\* and no step shortens the file or changes a line it already held.
C1_OneHeaderThenRows ==
    /\ [](Len(appended) >= 1 =>
            store = [exists |-> TRUE, lines |-> <<HeaderLine>> \o appended])
    /\ [][/\ Len(store'.lines) >= Len(store.lines)
          /\ SubSeq(store'.lines, 1, Len(store.lines)) = store.lines]_vars

C1_Witness ==
    /\ Len(appended) >= 2
    /\ Len(store.lines) = Len(appended) + 1
    /\ store.lines[1] = HeaderLine
    /\ store.lines[2] # HeaderLine /\ store.lines[3] # HeaderLine

\* C8: a call in which the host query fails or the input cannot be read ends
\* fatally and leaves the ledger as it was (absent stays absent, no header, no
\* row); a call in which only the commit lookup fails completes, adds one row
\* (after the header if it creates the file), and that row's commit is "TBD".
C8_FatalLeavesStore ==
    [][last'.n # last.n =>
        IF ~last'.hostOk \/ ~last'.readable
        THEN last'.outcome = "fatal" /\ store' = store
        ELSE /\ last'.outcome = "ok"
             /\ Len(store'.lines) = Len(store.lines) + (IF store.exists THEN 1 ELSE 2)
             /\ ~last'.gitOk => Last(store'.lines)[ColumnIndex("CommitHash")] = TBD]_vars

C8_Witness ==
    /\ last.n >= 2
    /\ last.outcome = "fatal"
    /\ store.exists
    /\ Last(store.lines)[ColumnIndex("CommitHash")] = TBD

(***************************************************************************)
(* The extractor.                                                          *)
(***************************************************************************)
\* Metric m's pattern occurs in text at position i with a group of k digits.
OccursAt(text, m, i, k) ==
    /\ k >= 1 /\ i >= 1 /\ i + k + 1 <= Len(text)
    /\ text[i] = patterns[m].label
    /\ \A j \in 1..k : IsDigit(text[i + j])
    /\ text[i + k + 1] = patterns[m].unit

Occurs(text, m) == \E i \in 1..Len(text), k \in 1..Len(text) : OccursAt(text, m, i, k)

\* C7: the extracted record has one entry per metric of MetricSet; the entry is
\* "N/A" when the metric's own pattern occurs nowhere in the text, and else the
\* digits captured by the first occurrence of that pattern; nothing else in the
\* text, and no other metric's failure, has a say.
C7_OneEntryPerMetric ==
    metrics # <<>> =>
        /\ DOMAIN metrics[1] = MetricSet
        /\ \A m \in MetricSet :
             IF Occurs(content, m)
             THEN \E i \in 1..Len(content), k \in 1..Len(content) :
                     /\ OccursAt(content, m, i, k)
                     /\ \A i2 \in 1..(i - 1), k2 \in 1..Len(content) :
                           ~OccursAt(content, m, i2, k2)
                     /\ metrics[1][m] = SubSeq(content, i + 1, i + k)
                     /\ AllDigits(metrics[1][m])
             ELSE metrics[1][m] = NA
        /\ content = <<"File open time: ", "4", "2", "ms">> =>
             /\ metrics[1]["FileOpenTime"] = <<"4", "2">>
             /\ metrics[1]["FileSaveTime"] = NA

C7_Witness ==
    /\ metrics # <<>>
    /\ content = <<"File open time: ", "4", "2", "ms">>
    /\ metrics[1]["FileOpenTime"] = <<"4", "2">>
    /\ metrics[1]["FileSaveTime"] = NA

(***************************************************************************)
(* The comparator.                                                         *)
(***************************************************************************)
\* The day a Date field stands for.
DayOf(date) == CHOOSE d \in 1..MaxDay : strftime(d) = date

DayAt(list, i) == DayOf(list[i]["Date"])

\* The comparison c is the one of previous and latest: their dates, commits and
\* build configurations, and for every metric the change from previous to latest.
DesignatedAs(c, previous, latest) ==
    /\ c["Date"] = latest["Date"]
    /\ c["CommitHash"] = latest["CommitHash"]
    /\ c["BuildConfig"] = latest["BuildConfig"]
    /\ c["PreviousDate"] = previous["Date"]
    /\ c["PreviousCommitHash"] = previous["CommitHash"]
    /\ c["PreviousBuildConfig"] = previous["BuildConfig"]
    /\ \A m \in MetricSet :
         c[ChangeKey(m)] = calculate_percentage_change(previous[m], latest[m])

DistinctDates(list) ==
    \A i \in 1..Len(list), j \in 1..Len(list) :
        i # j => list[i]["Date"] # list[j]["Date"]

\* C2: with at least two records of pairwise distinct dates, in any file order,
\* latest is the record of the greatest date and previous the record of the
\* second greatest.
C2_LatestTwoByDate ==
    (pc = "done" /\ Len(loaded) >= 2 /\ DistinctDates(loaded)) =>
        /\ comparison # <<>>
        /\ \E i \in 1..Len(loaded), j \in 1..Len(loaded) :
             /\ i # j
             /\ \A k \in 1..Len(loaded) : DayAt(loaded, k) <= DayAt(loaded, i)
             /\ \A k \in 1..Len(loaded) : k # i => DayAt(loaded, k) <= DayAt(loaded, j)
             /\ DesignatedAs(comparison[1], loaded[j], loaded[i])

C2_Witness ==
    /\ pc = "done" /\ Len(loaded) = 3
    /\ DayAt(loaded, 1) = 3 /\ DayAt(loaded, 2) = 1 /\ DayAt(loaded, 3) = 2
    /\ loaded[1]["CommitHash"] # loaded[3]["CommitHash"]
    /\ DesignatedAs(comparison[1], loaded[3], loaded[1])

\* Record a comes before record b in date order, file order deciding a tie.
Before(list, a, b) ==
    \/ DayAt(list, a) < DayAt(list, b)
    \/ DayAt(list, a) = DayAt(list, b) /\ a < b

NonDecreasing(list) ==
    \A i \in 1..(Len(list) - 1) : DayAt(list, i) <= DayAt(list, i + 1)

\* C10: records of the same date keep their file order: latest is the last
\* record in (date, file position) order and previous the one right before it;
\* for a file in non-decreasing date order these are its last two rows.
C10_TiesByFileOrder ==
    (pc = "done" /\ Len(loaded) >= 2) =>
        /\ comparison # <<>>
        /\ \E i \in 1..Len(loaded), j \in 1..Len(loaded) :
             /\ i # j
             /\ \A k \in 1..Len(loaded) : k # i => Before(loaded, k, i)
             /\ \A k \in 1..Len(loaded) : k # i /\ k # j => Before(loaded, k, j)
             /\ DesignatedAs(comparison[1], loaded[j], loaded[i])
        /\ NonDecreasing(loaded) =>
             DesignatedAs(comparison[1], loaded[Len(loaded) - 1], loaded[Len(loaded)])

C10_Witness ==
    /\ pc = "done" /\ Len(loaded) = 3
    /\ DayAt(loaded, 1) = 2 /\ DayAt(loaded, 2) = 2 /\ DayAt(loaded, 3) = 1
    /\ loaded[1] # loaded[2]
    /\ DesignatedAs(comparison[1], loaded[1], loaded[2])

\* C5: compare_baselines is pure: after the call the caller's list holds the
\* same records in the same order as before it.
C5_CallerListUnchanged == pc = "done" => baselines = loaded

\* C6: on zero or one record compare_baselines reports insufficient data and
\* returns no comparison, and no report is written; on two or more it does not
\* report insufficient data and returns a comparison with a change entry for
\* each of the seven metrics.
C6_TwoRecordsNeeded ==
    pc = "done" =>
        IF Len(loaded) < 2
        THEN /\ comparison = <<>>
             /\ stdout = <<InsufficientMessage>>
             /\ reportFile = <<>>
        ELSE /\ \A i \in 1..Len(stdout) : stdout[i] # InsufficientMessage
             /\ comparison # <<>>
             /\ Cardinality(MetricSet) = 7
             /\ \A m \in MetricSet : ChangeKey(m) \in DOMAIN comparison[1]

C6_Witness ==
    /\ pc = "done" /\ Len(loaded) = 1
    /\ comparison = <<>> /\ reportFile = <<>>
    /\ stdout = <<InsufficientMessage>>

(***************************************************************************)
(* Rows of the wrong width.                                                *)
(***************************************************************************)
Mismatch(st) ==
    \E i \in 2..Len(st.lines) : Len(st.lines[i]) # Len(st.lines[1])

IsNumber(s) ==
    /\ s # None
    /\ LET body == IF s # <<>> /\ s[1] = "-" THEN Tail(s) ELSE s
       IN /\ Len(body) >= 1
          /\ \A i \in 1..Len(body) : \E d \in 0..9 : body[i] = DigitChars[d + 1]

RECURSIVE Horner(_, _)
Horner(acc, ds) ==
    IF ds = <<>> THEN acc ELSE Horner(acc * 10 + DigitValue(Head(ds)), Tail(ds))

NumberOf(s) == IF s[1] = "-" THEN 0 - Horner(0, Tail(s)) ELSE Horner(0, s)

\* c is the change the policy asks for from old to new.
ChangeIsRight(c, old, new) ==
    IF ~IsNumber(old) \/ ~IsNumber(new) THEN c = NotApplicable
    ELSE IF NumberOf(old) = 0 THEN c = NotApplicable
    ELSE /\ ~c.isNA
         /\ c.den > 0
         /\ c.num * NumberOf(old) = c.den * 100 * (NumberOf(new) - NumberOf(old))

\* C3: for every metric on its own, the change is "N/A" when the previous or
\* the latest value is no number (the N/A marker, a missing field) or when the
\* previous value is zero, and else (latest - previous) / previous * 100 with
\* its sign; no quotient has the denominator zero.  100 to 150 is +50; 0 to 50
\* is "N/A".
C3_ChangePolicy ==
    pc = "done" =>
        /\ comparison # <<>>
        /\ \A m \in MetricSet :
             /\ ChangeIsRight(comparison[1][ChangeKey(m)], loaded[1][m], loaded[2][m])
             /\ comparison[1][ChangeKey(m)].den # 0
        /\ (loaded[1]["FileOpenTime"] = <<"1", "0", "0">>
              /\ loaded[2]["FileOpenTime"] = <<"1", "5", "0">>) =>
             comparison[1]["FileOpenTime_Change"] = [isNA |-> FALSE, num |-> 50, den |-> 1]
        /\ (loaded[1]["MemoryUsage"] = <<"0">> /\ loaded[2]["MemoryUsage"] = <<"5", "0">>) =>
             comparison[1]["MemoryUsage_Change"] = NotApplicable

C3_Witness ==
    /\ pc = "done"
    /\ loaded[1]["FileOpenTime"] = <<"1", "0", "0">>
    /\ loaded[2]["FileOpenTime"] = <<"1", "5", "0">>
    /\ comparison[1]["FileOpenTime_Change"] = [isNA |-> FALSE, num |-> 50, den |-> 1]
    /\ loaded[1]["MemoryUsage"] = <<"0">> /\ loaded[2]["MemoryUsage"] = <<"5", "0">>
    /\ comparison[1]["MemoryUsage_Change"] = NotApplicable
    /\ loaded[1]["SearchReplaceTime"] = None
    /\ comparison[1]["SearchReplaceTime_Change"] = NotApplicable
    /\ reportFile[1].table[1] = <<"FileOpenTime", <<"+", "5", "0", ".", "0", "0", "%">>>>

\* The last column's values of the two rows, and the change each way.
SwapA == loaded[1]["SearchReplaceTime"]
SwapB == loaded[2]["SearchReplaceTime"]
ChangeAB == comparison[1]["SearchReplaceTime_Change"]
ChangeBA == calculate_percentage_change(SwapB, SwapA)

\* C4, as claimed: the change from A to B and the change from B to A are both
\* "N/A", or each is the negation of the other.
C4_SwapNegates ==
    pc = "done" =>
        \/ ChangeAB.isNA /\ ChangeBA.isNA
        \/ /\ ~ChangeAB.isNA /\ ~ChangeBA.isNA
           /\ ChangeAB.den = ChangeBA.den /\ ChangeAB.num = 0 - ChangeBA.num

Sign(n) == IF n > 0 THEN 1 ELSE IF n < 0 THEN 0 - 1 ELSE 0

\* 1 + c/100 for a numeric change c, in lowest terms.
OnePlus(c) == Rational(c.num + 100 * c.den, 100 * c.den)

\* C4, amended: if A or B is no number, or both are zero, both changes are
\* "N/A"; if just one is zero, the change from it is "N/A" and the change to it
\* is -100; if neither is zero both are numbers and 1 + AB/100 is the reciprocal
\* of 1 + BA/100, so for A and B of the same sign their signs are opposite, and
\* they are negations of each other only when both are 0 (A = B).
C4_SwapRelation ==
    pc = "done" =>
        IF ~IsNumber(SwapA) \/ ~IsNumber(SwapB) THEN ChangeAB.isNA /\ ChangeBA.isNA
        ELSE LET a == NumberOf(SwapA)
                 b == NumberOf(SwapB)
                 minus100 == [isNA |-> FALSE, num |-> 0 - 100, den |-> 1]
             IN CASE a = 0 /\ b = 0 -> ChangeAB.isNA /\ ChangeBA.isNA
                  [] a = 0 /\ b # 0 -> ChangeAB.isNA /\ ChangeBA = minus100
                  [] a # 0 /\ b = 0 -> ChangeAB = minus100 /\ ChangeBA.isNA
                  [] OTHER ->
                       /\ ~ChangeAB.isNA /\ ~ChangeBA.isNA
                       /\ OnePlus(ChangeBA).num # 0
                       /\ OnePlus(ChangeAB)
                            = Rational(OnePlus(ChangeBA).den, OnePlus(ChangeBA).num)
                       /\ Sign(a) = Sign(b) => Sign(ChangeAB.num) = 0 - Sign(ChangeBA.num)
                       /\ (ChangeAB.den = ChangeBA.den /\ ChangeAB.num = 0 - ChangeBA.num)
                            <=> a = b

C4_Witness ==
    /\ pc = "done"
    /\ SwapA = <<"5">> /\ SwapB = <<"5", "0">>
    /\ ChangeAB = [isNA |-> FALSE, num |-> 900, den |-> 1]
    /\ ChangeBA = [isNA |-> FALSE, num |-> 0 - 90, den |-> 1]

====
